---------------------------- MODULE Spec2Model ----------------------------
(***************************************************************************)
(* pctopus: document question answering.                                   *)
(*                                                                         *)
(* One request at a time runs through the presentation handler             *)
(* (ask_doc_qa_agent), the agent (DocumentQAAgent.ask), the reader         *)
(* (DocumentReader.read and the three format readers) and the model        *)
(* client (OpenAILLM).  The program is sequential: pc is the statement     *)
(* the request has reached, and every step is the only one enabled.        *)
(*                                                                         *)
(* Strings are sequences of code points, so that lower(), strip(), join,   *)
(* the f-strings and the codecs are computed character by character.       *)
(* What lies outside the repository is drawn from small sets where it is   *)
(* used: whether the path exists, the bytes of the file, whether PyPDF2 /  *)
(* python-docx import and what they parse, whether the OpenAI client can   *)
(* be constructed, and what the completion call answers or raises.         *)
(***************************************************************************)
EXTENDS Integers, Sequences, FiniteSets

VARIABLES
    pc,          \* the statement the request has reached
    entry,       \* the entry point called: "ui", "ask" or "read"
    args,        \* the arguments of the call
    fileKind,    \* what os.path.exists / open found at the path
    fileBytes,   \* the bytes of the file, once opened
    encIdx,      \* read_txt_file: 0 = the utf-8 attempt, i = i-th fallback
    handles,     \* number of file objects currently open
    handling,    \* read_txt_file: the exception the outer except clause handles
    exc,         \* the exception in flight
    cause,       \* the exception DocumentQAAgent.ask caught (e at line 53)
    readOutcome, \* what DocumentReader.read returned or raised
    doc,         \* document_content
    llmRequest,  \* what OpenAILLM.ask received and sent
    result,      \* what the entry point returned or raised
    log          \* the operations performed so far, in order

vars == <<pc, entry, args, fileKind, fileBytes, encIdx, handles, handling,
          exc, cause, readOutcome, doc, llmRequest, result, log>>

(***************************************************************************)
(* Bounds of the model.                                                    *)
(***************************************************************************)
\* longest file content explored when DocumentReader.read is the entry point
MaxLen == 4
\* longest question explored
MaxQLen == 2

(***************************************************************************)
(* String literals of the source, as code points.                          *)
(***************************************************************************)
\* document_reader.py:70  "File not found: "
FileNotFoundPrefix ==
    <<70, 105, 108, 101, 32, 110, 111, 116, 32, 102, 111, 117, 110, 100, 58,
    32>>

\* document_reader.py:77  "Unsupported file format: "
UnsupportedPrefix ==
    <<85, 110, 115, 117, 112, 112, 111, 114, 116, 101, 100, 32, 102, 105,
    108, 101, 32, 102, 111, 114, 109, 97, 116, 58, 32>>

\* document_reader.py:77  ". Supported formats are: "
UnsupportedMiddle ==
    <<46, 32, 83, 117, 112, 112, 111, 114, 116, 101, 100, 32, 102, 111, 114,
    109, 97, 116, 115, 32, 97, 114, 101, 58, 32>>

\* document_reader.py:76  ", "
CommaSpace ==
    <<44, 32>>

\* document_reader.py:26,36  "\n"
Newline ==
    <<10>>

\* document_reader.py:45  ".txt"
ExtTxt ==
    <<46, 116, 120, 116>>

\* document_reader.py:46  ".pdf"
ExtPdf ==
    <<46, 112, 100, 102>>

\* document_reader.py:47  ".doc"
ExtDoc ==
    <<46, 100, 111, 99>>

\* document_reader.py:48  ".docx"
ExtDocx ==
    <<46, 100, 111, 99, 120>>

\* document_reader.py:28
PdfImportMessage ==
    <<80, 121, 80, 68, 70, 50, 32, 105, 115, 32, 114, 101, 113, 117, 105,
    114, 101, 100, 32, 116, 111, 32, 114, 101, 97, 100, 32, 80, 68, 70, 32,
    102, 105, 108, 101, 115, 46, 32, 73, 110, 115, 116, 97, 108, 108, 32,
    105, 116, 32, 117, 115, 105, 110, 103, 58, 32, 112, 105, 112, 32, 105,
    110, 115, 116, 97, 108, 108, 32, 80, 121, 80, 68, 70, 50>>

\* document_reader.py:38
WordImportMessage ==
    <<112, 121, 116, 104, 111, 110, 45, 100, 111, 99, 120, 32, 105, 115, 32,
    114, 101, 113, 117, 105, 114, 101, 100, 32, 116, 111, 32, 114, 101, 97,
    100, 32, 87, 111, 114, 100, 32, 102, 105, 108, 101, 115, 46, 32, 73,
    110, 115, 116, 97, 108, 108, 32, 105, 116, 32, 117, 115, 105, 110, 103,
    58, 32, 112, 105, 112, 32, 105, 110, 115, 116, 97, 108, 108, 32, 112,
    121, 116, 104, 111, 110, 45, 100, 111, 99, 120>>

\* document_qa.py:8-11 (the triple-quoted text, line breaks and indentation included)
DEFAULT_SYSTEM_INSTRUCTION ==
    <<10, 32, 32, 32, 32, 85, 115, 101, 32, 116, 104, 101, 32, 112, 114,
    111, 118, 105, 100, 101, 100, 32, 99, 111, 110, 116, 101, 120, 116, 32,
    116, 111, 32, 97, 110, 115, 119, 101, 114, 32, 116, 104, 101, 32, 113,
    117, 101, 115, 116, 105, 111, 110, 46, 32, 10, 32, 32, 32, 32, 73, 102,
    32, 121, 111, 117, 32, 99, 97, 110, 110, 111, 116, 32, 102, 105, 110,
    100, 32, 116, 104, 101, 32, 97, 110, 115, 119, 101, 114, 32, 102, 114,
    111, 109, 32, 116, 104, 101, 32, 112, 114, 111, 118, 105, 100, 101, 100,
    32, 99, 111, 110, 116, 101, 120, 116, 44, 32, 115, 97, 121, 32, 34, 73,
    32, 99, 97, 110, 110, 111, 116, 32, 102, 105, 110, 100, 32, 116, 104,
    101, 32, 97, 110, 115, 119, 101, 114, 32, 105, 110, 32, 116, 104, 101,
    32, 112, 114, 111, 118, 105, 100, 101, 100, 32, 99, 111, 110, 116, 101,
    120, 116, 46, 34, 10, 32, 32, 32, 32>>

\* document_qa.py:41-42  "\n                Context: "
PromptContext ==
    <<10, 32, 32, 32, 32, 32, 32, 32, 32, 32, 32, 32, 32, 32, 32, 32, 32,
    67, 111, 110, 116, 101, 120, 116, 58, 32>>

\* document_qa.py:42-43  "\n                Question: "
PromptQuestion ==
    <<10, 32, 32, 32, 32, 32, 32, 32, 32, 32, 32, 32, 32, 32, 32, 32, 32,
    81, 117, 101, 115, 116, 105, 111, 110, 58, 32>>

\* document_qa.py:43-44  "\n                "
PromptTail ==
    <<10, 32, 32, 32, 32, 32, 32, 32, 32, 32, 32, 32, 32, 32, 32, 32, 32>>

\* document_qa.py:54  "Error processing the document: "
AskErrorPrefix ==
    <<69, 114, 114, 111, 114, 32, 112, 114, 111, 99, 101, 115, 115, 105,
    110, 103, 32, 116, 104, 101, 32, 100, 111, 99, 117, 109, 101, 110, 116,
    58, 32>>

\* document_qa_agent_ui.py:21
UiNoFileMessage ==
    <<69, 114, 114, 111, 114, 58, 32, 80, 108, 101, 97, 115, 101, 32, 117,
    112, 108, 111, 97, 100, 32, 97, 32, 100, 111, 99, 117, 109, 101, 110,
    116, 32, 102, 105, 114, 115, 116, 46>>

\* document_qa_agent_ui.py:24
UiNoQuestionMessage ==
    <<69, 114, 114, 111, 114, 58, 32, 80, 108, 101, 97, 115, 101, 32, 101,
    110, 116, 101, 114, 32, 97, 32, 113, 117, 101, 115, 116, 105, 111, 110,
    46>>

\* document_qa_agent_ui.py:38  "Error: "
UiErrorPrefix ==
    <<69, 114, 114, 111, 114, 58, 32>>

\* document_reader.py:8  "utf-8"
EncUtf8 ==
    <<117, 116, 102, 45, 56>>

\* document_reader.py:12  "latin-1"
EncLatin1 ==
    <<108, 97, 116, 105, 110, 45, 49>>

\* document_reader.py:12  "ascii"
EncAscii ==
    <<97, 115, 99, 105, 105>>

\* document_reader.py:12  "utf-16"
EncUtf16 ==
    <<117, 116, 102, 45, 49, 54>>

\* str() of the IsADirectoryError that open() raises at document_reader.py:8, up to the path
IsADirectoryPrefix ==
    <<91, 69, 114, 114, 110, 111, 32, 50, 49, 93, 32, 73, 115, 32, 97, 32,
    100, 105, 114, 101, 99, 116, 111, 114, 121, 58, 32, 39>>

\* the codec the utf-16 decoder names in its errors, little endian
CodecUtf16LE ==
    <<117, 116, 102, 45, 49, 54, 45, 108, 101>>

\* the codec the utf-16 decoder names in its errors, big endian
CodecUtf16BE ==
    <<117, 116, 102, 45, 49, 54, 45, 98, 101>>

\* UnicodeDecodeError.__str__, one byte: after the codec's name
CantDecodeByte ==
    <<39, 32, 99, 111, 100, 101, 99, 32, 99, 97, 110, 39, 116, 32, 100, 101,
    99, 111, 100, 101, 32, 98, 121, 116, 101, 32, 48, 120>>

\* UnicodeDecodeError.__str__, several bytes: after the codec's name
CantDecodeBytes ==
    <<39, 32, 99, 111, 100, 101, 99, 32, 99, 97, 110, 39, 116, 32, 100, 101,
    99, 111, 100, 101, 32, 98, 121, 116, 101, 115, 32, 105, 110, 32, 112,
    111, 115, 105, 116, 105, 111, 110, 32>>

\* UnicodeDecodeError.__str__, one byte: after the byte
InPosition ==
    <<32, 105, 110, 32, 112, 111, 115, 105, 116, 105, 111, 110, 32>>

\* reason of the utf-8 decoder
InvalidStartByte ==
    <<105, 110, 118, 97, 108, 105, 100, 32, 115, 116, 97, 114, 116, 32, 98,
    121, 116, 101>>

\* reason of the utf-8 decoder
InvalidContinuationByte ==
    <<105, 110, 118, 97, 108, 105, 100, 32, 99, 111, 110, 116, 105, 110,
    117, 97, 116, 105, 111, 110, 32, 98, 121, 116, 101>>

\* reason of the utf-8 and utf-16 decoders
UnexpectedEndOfData ==
    <<117, 110, 101, 120, 112, 101, 99, 116, 101, 100, 32, 101, 110, 100,
    32, 111, 102, 32, 100, 97, 116, 97>>

\* reason of the ascii decoder
OrdinalNotInRange ==
    <<111, 114, 100, 105, 110, 97, 108, 32, 110, 111, 116, 32, 105, 110, 32,
    114, 97, 110, 103, 101, 40, 49, 50, 56, 41>>

\* reason of the utf-16 decoder
TruncatedData ==
    <<116, 114, 117, 110, 99, 97, 116, 101, 100, 32, 100, 97, 116, 97>>

\* reason of the utf-16 decoder
IllegalEncoding ==
    <<105, 108, 108, 101, 103, 97, 108, 32, 101, 110, 99, 111, 100, 105,
    110, 103>>

\* reason of the utf-16 decoder
IllegalSurrogate ==
    <<105, 108, 108, 101, 103, 97, 108, 32, 85, 84, 70, 45, 49, 54, 32, 115,
    117, 114, 114, 111, 103, 97, 116, 101>>

\* the UnicodeError of the utf-16 stream decoder
NoBOMMessage ==
    <<85, 84, 70, 45, 49, 54, 32, 115, 116, 114, 101, 97, 109, 32, 100, 111,
    101, 115, 32, 110, 111, 116, 32, 115, 116, 97, 114, 116, 32, 119, 105,
    116, 104, 32, 66, 79, 77>>

(***************************************************************************)
(* Inputs.                                                                 *)
(***************************************************************************)
\* the paths explored: registered, upper-case, unregistered and empty suffixes
Paths == {
    <<110, 111, 116, 101, 115, 46, 116, 120, 116>>,   \* notes.txt
    <<110, 46, 84, 88, 84>>,   \* n.TXT
    <<109, 105, 115, 115, 105, 110, 103, 46, 112, 100, 102>>,   \* missing.pdf
    <<119, 46, 100, 111, 99>>,   \* w.doc
    <<119, 46, 100, 111, 99, 120>>,   \* w.docx
    <<120, 46, 120, 121, 122>>,   \* x.xyz
    <<110, 111, 101, 120, 116>>,   \* noext
    <<46, 116, 120, 116>>,   \* .txt
    <<97, 46>>,   \* a.
    <<100, 46, 112, 100, 102, 47, 97>>   \* d.pdf/a
}

\* byte values of file contents: NUL, CR, 'A', the utf-8 pair C3 A9 (each
\* half alone is not utf-8) and the utf-16 byte order mark FF FE
FileByteValues == {0, 13, 65, 169, 195, 254, 255}

\* code points of questions: tab, space, 'Q'
QuestionChars == {9, 32, 81}

RECURSIVE SeqsUpTo(_, _)
SeqsUpTo(S, n) ==
    IF n = 0 THEN {<<>>}
    ELSE LET shorter == SeqsUpTo(S, n - 1)
         IN shorter \cup {Append(s, x) : s \in shorter, x \in S}

\* file contents a direct DocumentReader.read explores
FileContents == SeqsUpTo(FileByteValues, MaxLen)

\* file contents the agent and the form explore
DocSamples == {
    <<>>,
    <<65>>,                               \* "A"
    <<65, 13, 10, 65>>,                   \* "A\r\nA"
    <<195, 169>>,                         \* utf-8 e-acute
    <<233>>,                              \* latin-1 e-acute
    <<255, 254, 65, 0>>                   \* utf-16 "A" with its byte order mark
}

Questions == SeqsUpTo(QuestionChars, MaxQLen)

\* document_qa_agent_ui.py:52, the choices of the dropdown
Models == {"gpt-3.5-turbo", "gpt-4o-mini", "gpt-4o"}

\* document_qa.py:26, the default of the model parameter
DefaultModel == "gpt-3.5-turbo"

\* text units (pages, paragraphs) the parsers return
UnitSamples == {<<>>, <<<<65>>>>, <<<<65>>, <<66>>>>}

\* messages of failures raised outside the repository
ExternalMessages == {<<98, 111, 111, 109>>}      \* "boom"

\* completions the model returns
Replies == {<<98, 108, 117, 101>>, <<>>}         \* "blue", ""

(***************************************************************************)
(* Values.                                                                 *)
(***************************************************************************)
NoString == [none |-> TRUE, s |-> <<>>]
Some(s) == [none |-> FALSE, s |-> s]

NoException == [kind |-> "none", msg |-> <<>>]
Error(kind, msg) == [kind |-> kind, msg |-> msg]

NoOutcome == [tag |-> "none", kind |-> "", text |-> <<>>]
Returned(text) == [tag |-> "returned", kind |-> "str", text |-> text]
Raised(e) == [tag |-> "raised", kind |-> e.kind, text |-> e.msg]

\* the system_message argument: left out, None, or a string
Omitted == [given |-> FALSE, value |-> NoString]
Passed(v) == [given |-> TRUE, value |-> v]
SystemArgs == {Omitted, Passed(NoString), Passed(Some(<<>>)),
               Passed(Some(<<66, 101, 32, 98, 114, 105, 101, 102, 46>>))}

(***************************************************************************)
(* str and pathlib.                                                        *)
(***************************************************************************)
\* sep.join(parts)
RECURSIVE Join(_, _)
Join(sep, parts) ==
    IF parts = <<>> THEN <<>>
    ELSE IF Len(parts) = 1 THEN parts[1]
    ELSE parts[1] \o sep \o Join(sep, Tail(parts))

\* sub in s
Contains(s, sub) ==
    \E i \in 0..(Len(s) - Len(sub)) : SubSeq(s, i + 1, i + Len(sub)) = sub

StartsWith(s, prefix) ==
    Len(s) >= Len(prefix) /\ SubSeq(s, 1, Len(prefix)) = prefix

\* str.lower(), on the code points below 256: A-Z, and the Latin-1 capitals
\* but for the multiplication sign
LowerChar(c) ==
    IF (c >= 65 /\ c <= 90) \/ (c >= 192 /\ c <= 222 /\ c # 215)
    THEN c + 32
    ELSE c
Lower(s) == [i \in 1..Len(s) |-> LowerChar(s[i])]

\* the code points below 256 that str.strip() removes
Whitespace == {9, 10, 11, 12, 13, 28, 29, 30, 31, 32, 133, 160}

\* str.strip()
Strip(s) ==
    LET keep == {i \in 1..Len(s) : s[i] \notin Whitespace}
    IN IF keep = {} THEN <<>>
       ELSE LET lo == CHOOSE i \in keep : \A j \in keep : i <= j
                hi == CHOOSE i \in keep : \A j \in keep : i >= j
            IN SubSeq(s, lo, hi)

\* the position of the last c in s, 0 when there is none (str.rfind + 1)
LastIndexOf(s, c) ==
    LET at == {i \in 1..Len(s) : s[i] = c}
    IN IF at = {} THEN 0 ELSE CHOOSE i \in at : \A j \in at : i >= j

\* the path without the slashes that end it
RECURSIVE DropTrailingSlashes(_)
DropTrailingSlashes(p) ==
    IF p # <<>> /\ p[Len(p)] = 47
    THEN DropTrailingSlashes(SubSeq(p, 1, Len(p) - 1))
    ELSE p

\* PurePath.name: the last component of the path (of a path with no "."
\* component)
Name(p) ==
    LET q == DropTrailingSlashes(p)
    IN SubSeq(q, LastIndexOf(q, 47) + 1, Len(q))

\* PurePath.suffix: from the last dot of the name, unless the dot is the
\* first or the last character of the name
Suffix(p) ==
    LET name == Name(p)
        i == LastIndexOf(name, 46)
    IN IF 1 < i /\ i < Len(name) THEN SubSeq(name, i, Len(name)) ELSE <<>>

(***************************************************************************)
(* The codecs, and text-mode reading.                                      *)
(***************************************************************************)
\* the decimal digits of n
RECURSIVE Decimal(_)
Decimal(n) ==
    IF n < 10 THEN <<48 + n>> ELSE Decimal(n \div 10) \o <<48 + (n % 10)>>

\* "%02x" of a byte
HexDigit(d) == IF d < 10 THEN 48 + d ELSE 87 + d
Hex2(x) == <<HexDigit(x \div 16), HexDigit(x % 16)>>

\* str() of UnicodeDecodeError(codec, b, start, end, reason), start and end
\* counted from 0, end excluded
DecodeMessage(codec, b, start, end, reason) ==
    IF end = start + 1
    THEN <<39>> \o codec \o CantDecodeByte \o Hex2(b[start + 1])
             \o InPosition \o Decimal(start) \o <<58, 32>> \o reason
    ELSE <<39>> \o codec \o CantDecodeBytes \o Decimal(start) \o <<45>>
             \o Decimal(end - 1) \o <<58, 32>> \o reason

\* a failed decode raises UnicodeDecodeError; the utf-16 stream decoder can
\* also raise its base class UnicodeError
DecodeFail(codec, b, start, end, reason) ==
    [ok |-> FALSE, text |-> <<>>, err |-> "UnicodeDecodeError",
     msg |-> DecodeMessage(codec, b, start, end, reason)]
DecodeNoBOM ==
    [ok |-> FALSE, text |-> <<>>, err |-> "UnicodeError", msg |-> NoBOMMessage]
DecodeOk(text) == [ok |-> TRUE, text |-> text, err |-> "", msg |-> <<>>]
Prepend(c, r) == IF r.ok THEN DecodeOk(<<c>> \o r.text) ELSE r

IsContinuation(x) == x >= 128 /\ x <= 191

\* the second byte of a utf-8 sequence that starts with c: a continuation
\* byte that makes neither an overlong form, a surrogate nor a code point
\* above U+10FFFF
IsSecondByte(c, x) ==
    /\ x >= (IF c = 224 THEN 160 ELSE IF c = 240 THEN 144 ELSE 128)
    /\ x <= (IF c = 237 THEN 159 ELSE IF c = 244 THEN 143 ELSE 191)

\* utf-8, strict, from the byte at i.  The sequence that fails is reported
\* from its first byte: to the end of the data when the data ends inside it,
\* else up to the byte that is no continuation of it.
RECURSIVE Utf8From(_, _)
Utf8From(b, i) ==
    IF i > Len(b) THEN DecodeOk(<<>>)
    ELSE LET c == b[i]
             more == Len(b) - i
             need == IF c < 128 THEN 0
                     ELSE IF c >= 194 /\ c <= 223 THEN 1
                     ELSE IF c >= 224 /\ c <= 239 THEN 2
                     ELSE IF c >= 240 /\ c <= 244 THEN 3
                     ELSE 4
             End == DecodeFail(EncUtf8, b, i - 1, Len(b), UnexpectedEndOfData)
             Bad(k) == DecodeFail(EncUtf8, b, i - 1, i - 1 + k,
                                  InvalidContinuationByte)
         IN IF need = 0 THEN Prepend(c, Utf8From(b, i + 1))
            ELSE IF need = 4
            THEN DecodeFail(EncUtf8, b, i - 1, i, InvalidStartByte)
            ELSE IF more = 0 THEN End
            ELSE IF ~IsSecondByte(c, b[i + 1]) THEN Bad(1)
            ELSE IF need = 1
            THEN Prepend((c - 192) * 64 + (b[i + 1] - 128),
                         Utf8From(b, i + 2))
            ELSE IF more = 1 THEN End
            ELSE IF ~IsContinuation(b[i + 2]) THEN Bad(2)
            ELSE IF need = 2
            THEN Prepend((c - 224) * 4096 + (b[i + 1] - 128) * 64
                             + (b[i + 2] - 128),
                         Utf8From(b, i + 3))
            ELSE IF more = 2 THEN End
            ELSE IF ~IsContinuation(b[i + 3]) THEN Bad(3)
            ELSE Prepend((c - 240) * 262144 + (b[i + 1] - 128) * 4096
                             + (b[i + 2] - 128) * 64 + (b[i + 3] - 128),
                         Utf8From(b, i + 4))

\* latin-1: every byte is the code point of the same number
Latin1Decode(b) == DecodeOk([i \in 1..Len(b) |-> b[i]])

\* ascii: the bytes below 128 only; the first other byte is reported
AsciiDecode(b) ==
    LET high == {i \in 1..Len(b) : b[i] >= 128}
    IN IF high = {}
       THEN DecodeOk([i \in 1..Len(b) |-> b[i]])
       ELSE LET i == CHOOSE k \in high : \A j \in high : k <= j
            IN DecodeFail(EncAscii, b, i - 1, i, OrdinalNotInRange)

\* the 16-bit unit at i, big or little endian
Unit16(b, i, big) ==
    IF big THEN b[i] * 256 + b[i + 1] ELSE b[i + 1] * 256 + b[i]

\* utf-16 from the byte at i, in the byte order given
RECURSIVE Utf16From(_, _, _)
Utf16From(b, i, big) ==
    LET codec == IF big THEN CodecUtf16BE ELSE CodecUtf16LE
    IN IF i > Len(b) THEN DecodeOk(<<>>)
       ELSE IF i = Len(b)
       THEN DecodeFail(codec, b, i - 1, Len(b), TruncatedData)
       ELSE LET u == Unit16(b, i, big)
            IN IF u < 55296 \/ u > 57343
               THEN Prepend(u, Utf16From(b, i + 2, big))
               ELSE IF u >= 56320
               THEN DecodeFail(codec, b, i - 1, i + 1, IllegalEncoding)
               ELSE IF i + 3 > Len(b)
               THEN DecodeFail(codec, b, i - 1, Len(b), UnexpectedEndOfData)
               ELSE LET v == Unit16(b, i + 2, big)
                    IN IF v >= 56320 /\ v <= 57343
                       THEN Prepend(65536 + (u - 55296) * 1024 + (v - 56320),
                                    Utf16From(b, i + 4, big))
                       ELSE DecodeFail(codec, b, i - 1, i + 1,
                                       IllegalSurrogate)

\* utf-16 as the stream decoder of a text file applies it (encodings/utf_16
\* IncrementalDecoder): a byte order mark sets the order and is dropped;
\* without one the bytes are decoded in the machine's order, little endian,
\* and if that consumed anything the decoder raises UnicodeError, "UTF-16
\* stream does not start with BOM"
Utf16Decode(b) ==
    IF Len(b) >= 2 /\ b[1] = 255 /\ b[2] = 254 THEN Utf16From(b, 3, FALSE)
    ELSE IF Len(b) >= 2 /\ b[1] = 254 /\ b[2] = 255 THEN Utf16From(b, 3, TRUE)
    ELSE LET native == Utf16From(b, 1, FALSE)
         IN IF native.ok /\ Len(b) >= 2 THEN DecodeNoBOM ELSE native

Decode(encoding, b) ==
    IF encoding = EncUtf8 THEN Utf8From(b, 1)
    ELSE IF encoding = EncLatin1 THEN Latin1Decode(b)
    ELSE IF encoding = EncAscii THEN AsciiDecode(b)
    ELSE Utf16Decode(b)

\* open(..., 'r') reads with universal newlines: "\r\n" and "\r" become "\n"
RECURSIVE UniversalNewlines(_)
UniversalNewlines(t) ==
    IF t = <<>> THEN <<>>
    ELSE IF t[1] = 13
    THEN IF Len(t) >= 2 /\ t[2] = 10
         THEN <<10>> \o UniversalNewlines(SubSeq(t, 3, Len(t)))
         ELSE <<10>> \o UniversalNewlines(Tail(t))
    ELSE <<t[1]>> \o UniversalNewlines(Tail(t))

\* file.read() of a file opened in text mode with the encoding
ReadText(encoding, b) ==
    LET d == Decode(encoding, b)
    IN IF d.ok THEN DecodeOk(UniversalNewlines(d.text)) ELSE d

\* the exception a failed file.read() raises: its type and its str()
DecodeError(r) == Error(r.err, r.msg)

(***************************************************************************)
(* DocumentReader.                                                         *)
(***************************************************************************)
\* self.readers, in insertion order
readers == <<
    [ext |-> ExtTxt, reader |-> "read_txt_file"],
    [ext |-> ExtPdf, reader |-> "read_pdf_file"],
    [ext |-> ExtDoc, reader |-> "read_word_file"],
    [ext |-> ExtDocx, reader |-> "read_word_file"] >>

\* a faulty variant of supported_formats: the last key is left out
supported_formats_without_last ==
    [i \in 1..(Len(readers) - 1) |-> readers[i].ext]

\* list(self.readers.keys())
supported_formats == [i \in 1..Len(readers) |-> readers[i].ext]

\* self.readers.get(file_extension), "None" when the key is missing
ReaderFor(file_extension) ==
    LET hits == {i \in 1..Len(readers) : readers[i].ext = file_extension}
    IN IF hits = {} THEN "None" ELSE readers[CHOOSE i \in hits : TRUE].reader

\* the message of the ValueError for an unregistered extension
UnsupportedMessage(file_extension) ==
    LET supported == Join(CommaSpace, supported_formats)
    IN UnsupportedPrefix \o file_extension \o UnsupportedMiddle \o supported

\* a faulty variant of os_path_exists: the check always passes
os_path_exists_always(kind) == TRUE

\* os.path.exists(file_path): true of a file and of a directory
os_path_exists(kind) == kind # "absent"

\* read_txt_file: the encoding of the try block, then those of the for loop
PrimaryEncoding == EncUtf8
FallbackEncodings == <<EncLatin1, EncAscii, EncUtf16>>
Encoding(i) == IF i = 0 THEN PrimaryEncoding ELSE FallbackEncodings[i]

\* a faulty variant of Release: the file stays open when read() raises
Release_on_success_only(open, ok) == IF ok THEN open - 1 ELSE open

\* leaving the with block closes the file, whether read() returned or raised
Release(open, ok) == open - 1

\* what PdfReader / Document do with the file: the import fails, the parser
\* raises, or it yields the text of each page / paragraph
ParserOutcomes ==
    {[tag |-> "missing", units |-> <<>>, msg |-> <<>>]}
    \cup {[tag |-> "error", units |-> <<>>, msg |-> m] : m \in ExternalMessages}
    \cup {[tag |-> "ok", units |-> u, msg |-> <<>>] : u \in UnitSamples}

(***************************************************************************)
(* DocumentQAAgent and OpenAILLM.                                          *)
(***************************************************************************)
\* a faulty variant of question_with_context: text and question swapped
question_with_context_swapped(document_content, question) ==
    PromptContext \o question \o PromptQuestion \o document_content
        \o PromptTail

\* the f-string of DocumentQAAgent.ask
question_with_context(document_content, question) ==
    PromptContext \o document_content \o PromptQuestion \o question
        \o PromptTail

\* the value of the system_message parameter: its default when left out
SystemMessageParam(arg) ==
    IF arg.given THEN arg.value ELSE Some(DEFAULT_SYSTEM_INSTRUCTION)

\* OpenAILLM.ask: the system message is sent only when it is truthy
Messages(prompt, system_message) ==
    (IF ~system_message.none /\ system_message.s # <<>>
     THEN <<[role |-> "system", content |-> system_message.s]>>
     ELSE <<>>)
    \o <<[role |-> "user", content |-> prompt]>>

\* client.chat.completions.create: a completion, or a failure
ApiOutcomes ==
    {[ok |-> TRUE, text |-> r] : r \in Replies}
    \cup {[ok |-> FALSE, text |-> m] : m \in ExternalMessages}

\* a faulty variant of WrapException: the failure is re-raised as it is
WrapException_reraise(e) == e

\* raise Exception(f"Error processing the document: {str(e)}")
WrapException(e) == Error("Exception", AskErrorPrefix \o e.msg)

\* a faulty variant of IsBlank: the question is not stripped
IsBlank_without_strip(question) == question = <<>>

\* not question.strip()
IsBlank(question) == Strip(question) = <<>>

NoRequest ==
    [called |-> FALSE, prompt |-> <<>>, system_message |-> NoString,
     model |-> "", messages |-> <<>>]

(***************************************************************************)
(* The state machine.                                                      *)
(***************************************************************************)
Init ==
    /\ pc = "idle"
    /\ entry = "none"
    /\ args = [file_given |-> FALSE, path |-> <<>>, question |-> <<>>,
               system_message |-> Omitted, model |-> DefaultModel]
    /\ fileKind = "unknown"
    /\ fileBytes = <<>>
    /\ encIdx = 0
    /\ handles = 0
    /\ handling = NoException
    /\ exc = NoException
    /\ cause = NoException
    /\ readOutcome = NoOutcome
    /\ doc = <<>>
    /\ llmRequest = NoRequest
    /\ result = NoOutcome
    /\ log = <<>>

\* DocumentReader.read goes on to its next statement
Continue(next) ==
    /\ pc' = next
    /\ UNCHANGED <<exc, readOutcome, result, doc>>

\* DocumentReader.read returns: to the caller of read, or into ask
ReadReturn(text) ==
    /\ readOutcome' = Returned(text)
    /\ doc' = text
    /\ exc' = exc
    /\ pc' = IF entry = "read" THEN "done" ELSE "ask_llm"
    /\ result' = IF entry = "read" THEN Returned(text) ELSE result

\* DocumentReader.read raises: to the caller of read, or into ask's except
ReadRaise(e) ==
    /\ readOutcome' = Raised(e)
    /\ doc' = doc
    /\ exc' = e
    /\ pc' = IF entry = "read" THEN "done" ELSE "ask_except"
    /\ result' = IF entry = "read" THEN Raised(e) ELSE result

\* ask_doc_qa_agent(file_obj, question, model), lines 20-24: the form's
\* handler is called and validates its inputs
ask_doc_qa_agent ==
    /\ pc = "idle"
    /\ \E given \in BOOLEAN, p \in Paths, q \in Questions, m \in Models :
        /\ args' = [file_given |-> given,
                    path |-> IF given THEN p ELSE <<>>,
                    question |-> q, system_message |-> Omitted, model |-> m]
        /\ IF ~given
           THEN pc' = "done" /\ result' = Returned(UiNoFileMessage)
           ELSE IF IsBlank(q)
           THEN pc' = "done" /\ result' = Returned(UiNoQuestionMessage)
           ELSE pc' = "ui_construct" /\ result' = result
    /\ entry' = "ui"
    /\ UNCHANGED <<fileKind, fileBytes, encIdx, handles, handling, exc, cause,
                   readOutcome, doc, llmRequest, log>>

\* ask_doc_qa_agent, lines 26-30: OpenAILLM() and DocumentQAAgent(llm) are
\* constructed outside the try block, then ask is called inside it.
\* openai.OpenAI raises when it finds no API key.
ui_construct ==
    /\ pc = "ui_construct"
    /\ \E key \in BOOLEAN, m \in ExternalMessages :
        IF key
        THEN /\ log' = log \o <<"OpenAILLM", "DocumentQAAgent">>
             /\ pc' = "read_exists"
             /\ UNCHANGED <<exc, result>>
        ELSE /\ log' = Append(log, "OpenAILLM")
             /\ pc' = "done"
             /\ exc' = Error("OpenAIError", m)
             /\ result' = Raised(Error("OpenAIError", m))
    /\ UNCHANGED <<entry, args, fileKind, fileBytes, encIdx, handles, handling,
                   cause, readOutcome, doc, llmRequest>>

\* DocumentQAAgent.ask(document_path, question, system_message, model)
\* called directly
DocumentQAAgent_ask ==
    /\ pc = "idle"
    /\ \E p \in Paths, q \in Questions, s \in SystemArgs, m \in Models :
        args' = [file_given |-> TRUE, path |-> p, question |-> q,
                 system_message |-> s, model |-> m]
    /\ entry' = "ask"
    /\ pc' = "read_exists"
    /\ UNCHANGED <<fileKind, fileBytes, encIdx, handles, handling, exc, cause,
                   readOutcome, doc, llmRequest, result, log>>

\* DocumentReader.read(file_path) called directly
DocumentReader_read ==
    /\ pc = "idle"
    /\ \E p \in Paths :
        args' = [file_given |-> TRUE, path |-> p, question |-> <<>>,
                 system_message |-> Omitted, model |-> DefaultModel]
    /\ entry' = "read"
    /\ pc' = "read_exists"
    /\ UNCHANGED <<fileKind, fileBytes, encIdx, handles, handling, exc, cause,
                   readOutcome, doc, llmRequest, result, log>>

\* DocumentReader.read, lines 69-70: the existence check
read_exists ==
    /\ pc = "read_exists"
    /\ log' = Append(log, "exists")
    /\ \E kind \in {"absent", "file", "dir"} :
        /\ fileKind' = kind
        /\ IF os_path_exists(kind)
           THEN Continue("read_lookup")
           ELSE ReadRaise(Error("FileNotFoundError",
                                FileNotFoundPrefix \o args.path))
    /\ UNCHANGED <<entry, args, fileBytes, encIdx, handles, handling, cause,
                   llmRequest>>

\* DocumentReader.read, lines 72-79: the suffix is looked up in the registry
\* and the reader found is called
read_lookup ==
    /\ pc = "read_lookup"
    /\ log' = Append(log, "lookup")
    /\ LET file_extension == Lower(Suffix(args.path))
           reader == ReaderFor(file_extension)
       IN IF reader = "None"
          THEN ReadRaise(Error("ValueError",
                               UnsupportedMessage(file_extension)))
          ELSE Continue(reader)
    /\ UNCHANGED <<entry, args, fileKind, fileBytes, encIdx, handles,
                   handling, cause, llmRequest>>

\* read_txt_file, lines 8 and 14: open(file_path, 'r', encoding=...).
\* A directory cannot be opened; the bytes of a file are fixed at the first
\* open of the call.
read_txt_file ==
    /\ pc = "read_txt_file"
    /\ log' = Append(log, "open")
    /\ IF fileKind = "dir"
       THEN /\ ReadRaise(Error("IsADirectoryError",
                               IsADirectoryPrefix \o args.path \o <<39>>))
            /\ UNCHANGED <<handles, fileBytes>>
       ELSE /\ handles' = handles + 1
            /\ IF encIdx = 0
               THEN \E b \in (IF entry = "read" THEN FileContents
                                                ELSE DocSamples) :
                        fileBytes' = b
               ELSE fileBytes' = fileBytes
            /\ Continue("file_read")
    /\ UNCHANGED <<entry, args, fileKind, encIdx, handling, cause,
                   llmRequest>>

\* read_txt_file, lines 9-18: file.read() inside the with block.  A
\* UnicodeDecodeError moves on to the next encoding; when the loop ends, the
\* bare raise re-raises the exception the outer except clause is handling.
file_read ==
    /\ pc = "file_read"
    /\ log' = Append(log, "read")
    /\ LET encoding == Encoding(encIdx)
           r == ReadText(encoding, fileBytes)
       IN /\ handles' = Release(handles, r.ok)
          /\ IF r.ok
             THEN ReadReturn(r.text) /\ UNCHANGED <<encIdx, handling>>
             ELSE IF r.err # "UnicodeDecodeError"
             THEN /\ ReadRaise(DecodeError(r))
                  /\ UNCHANGED <<encIdx, handling>>
             ELSE IF encIdx < Len(FallbackEncodings)
             THEN /\ encIdx' = encIdx + 1
                  /\ handling' = IF encIdx = 0
                                 THEN DecodeError(r)
                                 ELSE handling
                  /\ Continue("read_txt_file")
             ELSE ReadRaise(handling) /\ UNCHANGED <<encIdx, handling>>
    /\ UNCHANGED <<entry, args, fileKind, fileBytes, cause, llmRequest>>

\* read_pdf_file: the pages' texts joined with "\n"
read_pdf_file ==
    /\ pc = "read_pdf_file"
    /\ log' = Append(log, "import PyPDF2")
    /\ \E o \in ParserOutcomes :
        IF o.tag = "missing"
        THEN ReadRaise(Error("ImportError", PdfImportMessage))
        ELSE IF o.tag = "error"
        THEN ReadRaise(Error("PdfReadError", o.msg))
        ELSE ReadReturn(Join(Newline, o.units))
    /\ UNCHANGED <<entry, args, fileKind, fileBytes, encIdx, handles,
                   handling, cause, llmRequest>>

\* read_word_file: the paragraphs' texts joined with "\n"
read_word_file ==
    /\ pc = "read_word_file"
    /\ log' = Append(log, "import docx")
    /\ \E o \in ParserOutcomes :
        IF o.tag = "missing"
        THEN ReadRaise(Error("ImportError", WordImportMessage))
        ELSE IF o.tag = "error"
        THEN ReadRaise(Error("PackageNotFoundError", o.msg))
        ELSE ReadReturn(Join(Newline, o.units))
    /\ UNCHANGED <<entry, args, fileKind, fileBytes, encIdx, handles,
                   handling, cause, llmRequest>>

\* DocumentQAAgent.ask, lines 41-51, and OpenAILLM.ask: the prompt is
\* composed and sent; the completion is returned (through the form's handler
\* unchanged, line 35)
ask_llm ==
    /\ pc = "ask_llm"
    /\ log' = Append(log, "llm.ask")
    /\ LET prompt == question_with_context(doc, args.question)
           system_message == SystemMessageParam(args.system_message)
       IN llmRequest' = [called |-> TRUE, prompt |-> prompt,
                         system_message |-> system_message,
                         model |-> args.model,
                         messages |-> Messages(prompt, system_message)]
    /\ \E o \in ApiOutcomes :
        IF o.ok
        THEN pc' = "done" /\ result' = Returned(o.text) /\ exc' = exc
        ELSE pc' = "ask_except" /\ result' = result
             /\ exc' = Error("APIError", o.text)
    /\ UNCHANGED <<entry, args, fileKind, fileBytes, encIdx, handles,
                   handling, cause, readOutcome, doc>>

\* a faulty variant of ask_except: a failed model call is tried again
ask_except_retry ==
    /\ pc = "ask_except"
    /\ cause' = exc
    /\ IF readOutcome.tag = "returned"
       THEN pc' = "ask_llm" /\ exc' = NoException /\ result' = result
       ELSE /\ exc' = WrapException(exc)
            /\ IF entry = "ask"
               THEN pc' = "done" /\ result' = Raised(WrapException(exc))
               ELSE pc' = "ui_except" /\ result' = result
    /\ UNCHANGED <<entry, args, fileKind, fileBytes, encIdx, handles,
                   handling, readOutcome, doc, llmRequest, log>>

\* DocumentQAAgent.ask, lines 53-54: whatever was raised is wrapped
ask_except ==
    /\ pc = "ask_except"
    /\ cause' = exc
    /\ exc' = WrapException(exc)
    /\ IF entry = "ask"
       THEN pc' = "done" /\ result' = Raised(WrapException(exc))
       ELSE pc' = "ui_except" /\ result' = result
    /\ UNCHANGED <<entry, args, fileKind, fileBytes, encIdx, handles,
                   handling, readOutcome, doc, llmRequest, log>>

\* ask_doc_qa_agent, lines 37-38: the failure becomes the displayed string
ui_except ==
    /\ pc = "ui_except"
    /\ pc' = "done"
    /\ result' = Returned(UiErrorPrefix \o exc.msg)
    /\ UNCHANGED <<entry, args, fileKind, fileBytes, encIdx, handles,
                   handling, exc, cause, readOutcome, doc, llmRequest, log>>

Next ==
    \/ ask_doc_qa_agent
    \/ ui_construct
    \/ DocumentQAAgent_ask
    \/ DocumentReader_read
    \/ read_exists
    \/ read_lookup
    \/ read_txt_file
    \/ file_read
    \/ read_pdf_file
    \/ read_word_file
    \/ ask_llm
    \/ ask_except
    \/ ui_except

Spec == Init /\ [][Next]_vars

(***************************************************************************)
(* Properties.                                                             *)
(***************************************************************************)
\* how often an operation appears in the log
Count(op) == Cardinality({i \in 1..Len(log) : log[i] = op})

\* the operations of the format readers
ReaderOps == {"open", "read", "import PyPDF2", "import docx"}

\* the extensions the registry holds, as the specification lists them
RegisteredExtensions == {
    <<46, 116, 120, 116>>,           \* .txt
    <<46, 112, 100, 102>>,           \* .pdf
    <<46, 100, 111, 99>>,            \* .doc
    <<46, 100, 111, 99, 120>> }      \* .docx

\* the lower-cased suffix of the path of the call
PathExtension == Lower(Suffix(args.path))

\* all of s is white space (the empty string included)
AllWhitespace(s) == \A i \in 1..Len(s) : s[i] \in Whitespace

\* a occurs in s, and b occurs in s after the end of that occurrence
OccursBefore(s, a, b) ==
    \E i \in 0..(Len(s) - Len(a)) :
        /\ SubSeq(s, i + 1, i + Len(a)) = a
        /\ \E j \in (i + Len(a))..(Len(s) - Len(b)) :
            SubSeq(s, j + 1, j + Len(b)) = b

ContextLabel == <<67, 111, 110, 116, 101, 120, 116, 58, 32>>        \* "Context: "
QuestionLabel == <<81, 117, 101, 115, 116, 105, 111, 110, 58, 32>>  \* "Question: "

\* C1: a path that does not exist makes DocumentReader.read fail with
\* FileNotFoundError ("File not found: <path>") whatever its suffix is, and
\* on that call the registry is not consulted and no format reader runs (no
\* open, no read, no parser import).  In every call the existence check is
\* the first operation of the reader, the lookup the second, and a format
\* reader runs only after the lookup.
C1_MissingPathFailsFirst ==
    /\ fileKind = "absent" =>
        /\ readOutcome = Raised(Error("FileNotFoundError",
                                      FileNotFoundPrefix \o args.path))
        /\ \A i \in 1..Len(log) : log[i] \notin ReaderOps \cup {"lookup"}
        /\ handles = 0
        /\ entry = "read" => pc = "done" /\ result = readOutcome
    /\ \A i \in 1..Len(log) :
        /\ log[i] = "lookup" => i > 1 /\ log[i - 1] = "exists"
        /\ log[i] \in ReaderOps =>
            \E j \in 1..(i - 1) : log[j] = "lookup"

\* C1, its case: a direct read of a missing path with an unregistered suffix
\* has failed
C1_Witness ==
    /\ entry = "read"
    /\ pc = "done"
    /\ fileKind = "absent"
    /\ PathExtension \notin RegisteredExtensions
    /\ PathExtension # <<>>
    /\ result.kind = "FileNotFoundError"

\* C2: when the bytes of a text file are not valid utf-8 but are valid in a
\* fallback encoding (latin-1, ascii, utf-16), read_txt_file returns the text
\* that reading the file in that encoding gives.
C2_FallbackDecodesAsWritten ==
    (/\ entry = "read"
     /\ pc = "done"
     /\ Count("open") >= 1
     /\ fileKind = "file"
     /\ ~Decode(EncUtf8, fileBytes).ok) =>
        \A encoding \in {EncLatin1, EncAscii, EncUtf16} :
            ReadText(encoding, fileBytes).ok =>
                result = Returned(ReadText(encoding, fileBytes).text)

\* C3: whatever DocumentQAAgent.ask raises is an Exception, never the kind
\* that extraction or the model client raised, and its message is "Error
\* processing the document: " followed by the message of that failure; a
\* failure of extraction is never swallowed.
C3_AskWrapsEveryFailure ==
    /\ (entry = "ask" /\ pc = "done") =>
        /\ readOutcome.tag = "raised" =>
            /\ result.tag = "raised"
            /\ cause = Error(readOutcome.kind, readOutcome.text)
        /\ result.tag = "raised" =>
            /\ result.kind = "Exception"
            /\ cause # NoException
            /\ result.text = AskErrorPrefix \o cause.msg
            /\ Contains(result.text, cause.msg)
        /\ result.tag = "returned" => cause = NoException
    /\ pc = "ui_except" =>
        /\ exc.kind = "Exception"
        /\ Contains(exc.msg, cause.msg)

\* C3, its case: ask was called on a path with an unregistered suffix and has
\* raised
C3_Witness ==
    /\ entry = "ask"
    /\ pc = "done"
    /\ cause.kind = "ValueError"
    /\ result.tag = "raised"

\* C4: ask_doc_qa_agent never raises: it returns a string, and after a
\* failure the string is "Error: " followed by the failure's message.
C4_HandlerNeverRaises ==
    (entry = "ui" /\ pc = "done") =>
        /\ result.tag = "returned"
        /\ cause # NoException =>
            Contains(result.text, UiErrorPrefix \o AskErrorPrefix \o cause.msg)

\* C5: for an existing path whose lower-cased suffix is not registered,
\* DocumentReader.read fails with ValueError, the message names .txt, .pdf,
\* .doc and .docx, and no format reader has run: nothing was opened, read or
\* imported.
C5_UnregisteredExtensionFails ==
    (/\ fileKind \in {"file", "dir"}
     /\ PathExtension \notin RegisteredExtensions) =>
        /\ \A i \in 1..Len(log) : log[i] \notin ReaderOps
        /\ handles = 0
        /\ fileBytes = <<>>
        /\ pc # "read_lookup" =>
            /\ readOutcome.tag = "raised"
            /\ readOutcome.kind = "ValueError"
            /\ \A e \in RegisteredExtensions : Contains(readOutcome.text, e)
            /\ StartsWith(readOutcome.text,
                          UnsupportedPrefix \o PathExtension)
            /\ entry = "read" => pc = "done" /\ result = readOutcome

\* C5, its case: a direct read of an existing file with an unregistered,
\* non-empty suffix has failed
C5_Witness ==
    /\ entry = "read"
    /\ pc = "done"
    /\ fileKind = "file"
    /\ PathExtension \notin RegisteredExtensions
    /\ PathExtension # <<>>
    /\ result.kind = "ValueError"

\* C6: when no file was uploaded, or the question is empty or white space
\* only, ask_doc_qa_agent returns its error string (the one about the file
\* first) and nothing else has happened: no model client was constructed, no
\* extraction ran, no model call was made.
C6_ValidationBeforeOrchestration ==
    (/\ entry = "ui"
     /\ (~args.file_given \/ AllWhitespace(args.question))) =>
        /\ pc = "done"
        /\ result = Returned(IF ~args.file_given THEN UiNoFileMessage
                                                 ELSE UiNoQuestionMessage)
        /\ StartsWith(result.text, UiErrorPrefix)
        /\ log = <<>>
        /\ readOutcome = NoOutcome
        /\ ~llmRequest.called

\* C6, its case: a file was uploaded and the question is white space, not
\* empty
C6_Witness ==
    /\ entry = "ui"
    /\ pc = "done"
    /\ args.file_given
    /\ Len(args.question) > 0
    /\ AllWhitespace(args.question)

\* the prompt sent holds "Context: " and the document text, and after them
\* "Question: " and the question
PromptHoldsTextThenQuestion ==
    OccursBefore(llmRequest.prompt, ContextLabel \o doc,
                 QuestionLabel \o args.question)

\* the model client was given the default instruction and sends it as the
\* system message
DefaultInstructionSent ==
    /\ llmRequest.system_message = Some(DEFAULT_SYSTEM_INSTRUCTION)
    /\ llmRequest.messages[1] =
        [role |-> "system", content |-> DEFAULT_SYSTEM_INSTRUCTION]

\* C7, as claimed: the prompt holds the document text and then the question,
\* and when the system instruction is left out or passed as None the model
\* client receives the default instruction.
C7_Original ==
    llmRequest.called =>
        /\ PromptHoldsTextThenQuestion
        /\ (~args.system_message.given \/ args.system_message.value.none) =>
            DefaultInstructionSent

\* C7, amended: the prompt holds the document text and then the question;
\* when the system instruction is left out the model client receives the
\* default instruction; when None is passed the model client receives None
\* and sends the user message alone.
C7_PromptAndDefaultInstruction ==
    llmRequest.called =>
        /\ PromptHoldsTextThenQuestion
        /\ llmRequest.messages[Len(llmRequest.messages)] =
            [role |-> "user", content |-> llmRequest.prompt]
        /\ ~args.system_message.given => DefaultInstructionSent
        /\ (args.system_message.given /\ args.system_message.value.none) =>
            /\ llmRequest.system_message = NoString
            /\ Len(llmRequest.messages) = 1

\* C7, its case: ask was called with system_message=None on a document and a
\* question that are not empty, and the model client has been called
C7_Witness ==
    /\ entry = "ask"
    /\ llmRequest.called
    /\ args.system_message = Passed(NoString)
    /\ doc # <<>>
    /\ Strip(args.question) # <<>>

\* C8, what the program can reach of it: read_txt_file never raises a decode
\* failure.  The latin-1 attempt, the first of the fallbacks, decodes every
\* byte sequence, so the ascii and utf-16 attempts and the bare raise after
\* the loop are never reached, and the case of C8, every attempt failing,
\* does not occur.
C8_FallbacksNeverExhausted ==
    /\ encIdx <= 1
    /\ readOutcome.kind \notin {"UnicodeDecodeError", "UnicodeError"}
    /\ (pc = "done" /\ handling # NoException) =>
        /\ readOutcome.tag = "returned"
        /\ readOutcome.text = ReadText(EncLatin1, fileBytes).text

\* C9: at most one file is open at any moment, and one is open only between
\* an open and the end of its with block: none between two attempts, none
\* once read_txt_file has returned or raised.
C9_FileHandlesReleased ==
    /\ handles \in {0, 1}
    /\ handles = 1 <=> pc = "file_read"

\* C9, its case: the utf-8 attempt failed, the file was opened again and
\* read as latin-1, and the call has returned
C9_Witness ==
    /\ entry = "read"
    /\ pc = "done"
    /\ Count("open") = 2
    /\ encIdx = 1
    /\ result.tag = "returned"
    /\ handles = 0

\* C10: in one call the model client is called at most once and extraction
\* at most once; the model client is called only after extraction has
\* returned, and never when extraction has raised; nothing follows a model
\* call but the handling of its outcome.
C10_ModelCalledOnceAfterExtraction ==
    /\ Count("llm.ask") <= 1
    /\ Count("exists") <= 1
    /\ Count("llm.ask") = 1 <=> llmRequest.called
    /\ llmRequest.called => readOutcome.tag = "returned"
    /\ readOutcome.tag = "raised" => Count("llm.ask") = 0
    /\ \A i \in 1..Len(log) : log[i] = "llm.ask" => i = Len(log)

\* C10, its case: the model client has failed and ask has raised
C10_Witness ==
    /\ entry = "ask"
    /\ pc = "done"
    /\ cause.kind = "APIError"
    /\ Count("llm.ask") = 1
    /\ Count("exists") = 1

=============================================================================
